---- MODULE Spec2Model ----
(***************************************************************************)
(* EnvService of @diia-inhouse/env: the vault login, the self-renewing     *)
(* token and lease timers with retry and backoff, the raw secret cache and *)
(* the token revocation of the shutdown hooks.                             *)
(*                                                                         *)
(* One logical task runs at a time (node event loop); every await of a     *)
(* store call, of fs.readFile or of the retry delay is a suspension point, *)
(* so each action below is the code between two suspension points.  The    *)
(* pending promises and timers are the elements of the bag `tasks`.        *)
(***************************************************************************)
EXTENDS Bags, FiniteSets, Integers, Sequences, TLC

----------------------------------------------------------------------------
(* Bounds of the exploration *)

MaxInitCalls == 1
MaxGetSecretCalls == 2
MaxRenewCalls == 3
MaxHookCalls == 2

----------------------------------------------------------------------------
(* Program constants *)

DurationMsSecond == 1000
DurationMsMinute == 60000

----------------------------------------------------------------------------
(* JavaScript values: a type tag and a printed value *)

JsUndefined == [t |-> "undefined", v |-> ""]
JsNull == [t |-> "null", v |-> ""]
Str(s) == [t |-> "string", v |-> s]

\* !value of a string | null | undefined
Falsy(value) == value.t \in {"undefined", "null"} \/ value = Str("")

----------------------------------------------------------------------------
(* The environment of the process and of the store *)

SecretNames == {"A", "E", "U"}
EnvNames == SecretNames \cup {"VAULT_ROLE"}

\* A holds a store path, E is set to the empty string, U is unset
BaseEnv(role) ==
    [n \in EnvNames |->
        CASE n = "A" -> Str("p1")
          [] n = "E" -> Str("")
          [] n = "U" -> JsUndefined
          [] n = "VAULT_ROLE" -> role]

Envs == {BaseEnv(Str("vault-role")), BaseEnv(JsUndefined)}

\* VAULT_RENEWAL_MAX_DELAY: caps that the backoff reaches within a few failures
\* (one below the base delay), and the default of one minute
MaxDelays == {500, 1500, DurationMsMinute}
\* VAULT_RENEWAL_LEASE_LIFETIME as a fraction <<numerator, denominator>>; default 0.6
LeaseLifetimes == {<<6, 10>>}

\* the configurations the process is started with
Configs ==
    { [enabled |-> FALSE, maxDelay |-> DurationMsMinute, lifetime |-> <<6, 10>>,
       env |-> BaseEnv(JsUndefined)],
      [enabled |-> TRUE, maxDelay |-> 1500, lifetime |-> <<6, 10>>,
       env |-> BaseEnv(Str("vault-role"))],
      [enabled |-> TRUE, maxDelay |-> DurationMsMinute, lifetime |-> <<6, 10>>,
       env |-> BaseEnv(JsUndefined)] }

Tokens == {"t1"}
\* lease_duration (seconds) of a login or read response, and of a renew response
IssueDurations == {120}
RenewDurations == {180}
Durations == IssueDurations \cup RenewDurations
LeaseIds == {"l1"}
\* lease_id of a read: empty for a static secret
ReadLeaseIds == LeaseIds \cup {""}
\* messages of a rejected renew call
ErrorMessages == {"permission denied", "lease not found", "timeout"}
\* message of a rejected login, read or revoke call, which the code does not inspect
CallErrors == {"timeout"}

\* the accessors used by callers; data.<envName> is the default one
Accessors == {"pw"} \cup {"data." \o n : n \in SecretNames}
\* raw secret payloads (always objects, hence truthy)
Payloads ==
    { [a \in Accessors |-> IF a = "pw" THEN Str("s1") ELSE JsUndefined],
      [a \in Accessors |-> IF a = "data.A" THEN Str("s2") ELSE JsUndefined] }
NoPayload == [a \in Accessors |-> [t |-> "absent", v |-> ""]]

\* keys of the rawSecrets map: the value getVar returned (a path or null)
PathKeys == {Str("p1"), JsNull}

\* the calls of getSecret made by the host: <<envName, accessor or "", nullable>>
GetSecretInputs ==
    { <<"A", "", FALSE>>, <<"A", "pw", FALSE>>, <<"A", "pw", TRUE>>,
      <<"E", "", FALSE>>, <<"E", "", TRUE>>, <<"U", "", FALSE>>, <<"U", "", TRUE>> }

StoreOps == {"login", "read", "renew_token", "renew_lease", "revoke"}
Methods == {"get_secret", "renew_token", "renew_lease"}
Statuses == {"success", "failure"}

----------------------------------------------------------------------------
VARIABLES
    isVaultEnabled,        \* this.vault is a client (TRUE) or null (FALSE)
    renewalLeaseLifetime,  \* <<num, den>>
    renewalMaxDelay,
    processEnv,
    token,                 \* this.vault.token
    rawSecrets,            \* PathKeys -> payload or NoPayload
    tasks,                 \* bag of pending timers and promises
    calls,                 \* history: store calls issued, per operation
    metrics,               \* vaultRequestsTotalMetric, per <<status, method>>
    sigints,               \* history: process.emit('SIGINT')
    lastLog,               \* the logger.error call of the last step, if it made one
    ret,                   \* what the last step returned or threw to the caller of a
                           \* public operation, if it finished one
    okLogins,              \* history: successful inits
    cacheHits,             \* history: getSecret calls answered from rawSecrets
    revoked,               \* history: credentials whose renewal met the revoked signature
    leaseReads,            \* history: per lease id, the successful reads that returned it
    initCalls, getSecretCalls, hookCalls

vars == <<isVaultEnabled, renewalLeaseLifetime, renewalMaxDelay, processEnv, token,
          rawSecrets, tasks, calls, metrics, sigints, lastLog, ret,
          okLogins, cacheHits, revoked, leaseReads, initCalls, getSecretCalls, hookCalls>>

config == <<isVaultEnabled, renewalLeaseLifetime, renewalMaxDelay, processEnv>>
history == <<okLogins, cacheHits, revoked, leaseReads>>

----------------------------------------------------------------------------
(* Tasks: one record shape for every pending timer or promise *)

\* k: kind; cred: "token" or a lease id; path, acc: arguments of a pending read;
\* d: delay of a timer, retryDelay of a renewal; f (history): the consecutive
\* failures of the renewal so far, or the lease duration a timer was computed from
Task(k, cred, path, acc, d, f) ==
    [k |-> k, cred |-> cred, path |-> path, acc |-> acc, d |-> d, f |-> f]

InitReadFileTask == Task("init.readFile", "", JsUndefined, "", 0, 0)
InitLoginTask == Task("init.login", "", JsUndefined, "", 0, 0)
ReadTask(path, acc) == Task("read", "", path, acc, 0, 0)
\* setTimeout(() => renewX(), delay)
TimerTask(cred, delay, leaseDuration) == Task("timer", cred, JsUndefined, "", delay, leaseDuration)
\* renew call in flight inside renewX(retryDelay)
RenewTask(cred, retryDelay, f) == Task("renew", cred, JsUndefined, "", retryDelay, f)
\* await delay(retryDelay) inside the catch of renewX
RetryTask(cred, retryDelay, f) == Task("retry", cred, JsUndefined, "", retryDelay, f)
\* tokenRevokeSelf in flight, awaited by revokeToken
RevokeTask == Task("revoke", "", JsUndefined, "", 0, 0)

One(t) == SetToBag({t})
TasksOf(bag, kinds, cred) ==
    LET S == {t \in BagToSet(bag) : t.k \in kinds /\ t.cred = cred}
    IN  IF S = {} THEN 0 ELSE BagCardinality([t \in S |-> CopiesIn(t, bag)])

Ret(op, st, val) == [op |-> op, st |-> st, val |-> val]
Log(msg, d) == [msg |-> msg, d |-> d]
NoRet == Ret("", "", JsUndefined)
NoLog == Log("", 0)

Bump(f, x) == [f EXCEPT ![x] = @ + 1]

----------------------------------------------------------------------------
(* getVar *)

\* JSON.parse over the literals that occur in the model; typeof of the parsed value
JsonLiterals ==
    [lit \in {"true", "false", "0", "3000", "null", "{}", "[]", "\"x\""} |->
        CASE lit \in {"true", "false"} -> [t |-> "boolean", v |-> lit]
          [] lit \in {"0", "3000"} -> [t |-> "number", v |-> lit]
          [] lit = "null" -> JsNull
          [] lit \in {"{}", "[]"} -> [t |-> "object", v |-> lit]
          [] lit = "\"x\"" -> Str("x")]

TypeOf(value) == IF value.t = "null" THEN "object" ELSE value.t

Returned(value) == [ok |-> TRUE, val |-> value, err |-> ""]
Thrown(err) == [ok |-> FALSE, val |-> JsUndefined, err |-> err]

GetVar(env, name, type, defaultValue) ==
    LET value == env[name] IN
    IF Falsy(value)
    THEN IF defaultValue # JsUndefined
         THEN Returned(defaultValue)
         ELSE Thrown("Env variable is not defined")
    ELSE IF type = "string"
         THEN Returned(value)
         ELSE IF value.v \notin DOMAIN JsonLiterals
              THEN Thrown("Error while parsing variable; SyntaxError")
              ELSE IF TypeOf(JsonLiterals[value.v]) # type
                   THEN Thrown("Error while parsing variable; TypeError: Unexpected typeof")
                   ELSE Returned(JsonLiterals[value.v])

----------------------------------------------------------------------------
(* Helpers of the lifecycle manager *)

\* mutant: the renewal fraction is left out
GetRenewalDelayMut(leaseDurationS) == leaseDurationS * DurationMsSecond

GetRenewalDelay(leaseDurationS) ==
    (leaseDurationS * DurationMsSecond * renewalLeaseLifetime[1]) \div renewalLeaseLifetime[2]

\* mutant: no timer is set
ScheduleTokenRenewalMut(bag, leaseDuration) == bag

ScheduleTokenRenewal(bag, leaseDuration) ==
    bag (+) One(TimerTask("token", GetRenewalDelay(leaseDuration), leaseDuration))

\* mutant: a lease that already has a timer gets no second one
ScheduleLeaseRenewalOnceMut(bag, leaseId, leaseDuration) ==
    IF \E t \in BagToSet(bag) : t.k = "timer" /\ t.cred = leaseId
    THEN bag
    ELSE bag (+) One(TimerTask(leaseId, GetRenewalDelay(leaseDuration), leaseDuration))

\* mutant: no timer is set
ScheduleLeaseRenewalMut(bag, leaseId, leaseDuration) == bag

ScheduleLeaseRenewal(bag, leaseId, leaseDuration) ==
    bag (+) One(TimerTask(leaseId, GetRenewalDelay(leaseDuration), leaseDuration))

\* mutant: the retry delay is never capped
CapRetryDelayMut(retryDelay) == retryDelay

\* if (retryDelay > this.renewalMaxDelay) retryDelay = this.renewalMaxDelay
CapRetryDelay(retryDelay) ==
    IF retryDelay > renewalMaxDelay THEN renewalMaxDelay ELSE retryDelay

\* err.message.includes(signature), over the messages of the model
Includes(message, signature) == message = signature

TokenIsRevoked(message) == Includes(message, "permission denied")
LeaseIsRevoked(message) == Includes(message, "lease not found")

\* mutant: only the client is tested, as in `await this.vault?.tokenRevokeSelf()`
NoVaultTokenMut == ~isVaultEnabled

\* !this.vault?.token
NoVaultToken == ~isVaultEnabled \/ Falsy(token)

\* this.rawSecrets.get(envValue), tested for truthiness
CachedRawSecret(envValue) == rawSecrets[envValue]
\* mutant: the cache is never consulted
IsCachedMut(envValue) == FALSE

IsCached(envValue) == CachedRawSecret(envValue) # NoPayload

\* lodash get(data, accessor)
Get(data, accessor) == data[accessor]

Accessor(envName, acc) == IF acc = "" THEN "data." \o envName ELSE acc

----------------------------------------------------------------------------
TypeOK ==
    /\ isVaultEnabled \in BOOLEAN
    /\ renewalMaxDelay \in MaxDelays
    /\ renewalLeaseLifetime \in LeaseLifetimes
    /\ processEnv \in Envs
    /\ token \in {JsUndefined, Str("")} \cup {Str(t) : t \in Tokens}
    /\ rawSecrets \in [PathKeys -> Payloads \cup {NoPayload}]
    /\ IsABag(tasks)
    /\ calls \in [StoreOps -> Nat]
    /\ metrics \in [Statuses \X Methods -> Nat]
    /\ sigints \in Nat /\ okLogins \in Nat /\ cacheHits \in Nat
    /\ revoked \subseteq LeaseIds \cup {"token"}
    /\ leaseReads \in [LeaseIds -> Nat]
    /\ initCalls \in 0..MaxInitCalls
    /\ getSecretCalls \in 0..MaxGetSecretCalls
    /\ hookCalls \in 0..MaxHookCalls

Init ==
    /\ \E c \in Configs :
          /\ isVaultEnabled = c.enabled
          /\ renewalLeaseLifetime = c.lifetime
          /\ renewalMaxDelay = c.maxDelay
          /\ processEnv = c.env
    /\ token = JsUndefined
    /\ rawSecrets = [p \in PathKeys |-> NoPayload]
    /\ tasks = EmptyBag
    /\ calls = [o \in StoreOps |-> 0]
    /\ metrics = [m \in Statuses \X Methods |-> 0]
    /\ sigints = 0
    /\ lastLog = NoLog
    /\ ret = NoRet
    /\ okLogins = 0
    /\ cacheHits = 0
    /\ revoked = {}
    /\ leaseReads = [l \in LeaseIds |-> 0]
    /\ initCalls = 0
    /\ getSecretCalls = 0
    /\ hookCalls = 0

----------------------------------------------------------------------------
(* init *)

\* mutant: the error is logged and swallowed
InitFailedMut(task, message) ==
    /\ tasks' = tasks (-) One(task)
    /\ lastLog' = Log("Failed to init vault", 0)
    /\ ret' = Ret("init", "ok", JsUndefined)
    /\ UNCHANGED <<config, token, rawSecrets, calls, metrics, sigints, history,
                   initCalls, getSecretCalls, hookCalls>>

\* catch (err) { this.logger.error('Failed to init vault', { err }); throw err }
InitFailed(task, message) ==
    /\ tasks' = tasks (-) One(task)
    /\ lastLog' = Log("Failed to init vault", 0)
    /\ ret' = Ret("init", "throw", Str(message))
    /\ UNCHANGED <<config, token, rawSecrets, calls, metrics, sigints, history,
                   initCalls, getSecretCalls, hookCalls>>

\* init() up to its first await: returns at once without a vault client,
\* otherwise starts fs.readFile of the service account token
InitCall ==
    /\ initCalls < MaxInitCalls
    /\ initCalls' = initCalls + 1
    /\ IF ~isVaultEnabled
       THEN /\ ret' = Ret("init", "ok", JsUndefined)
            /\ UNCHANGED tasks
       ELSE /\ tasks' = tasks (+) One(InitReadFileTask)
            /\ ret' = NoRet
    /\ lastLog' = NoLog
    /\ UNCHANGED <<config, token, rawSecrets, calls, metrics, sigints, history,
                   getSecretCalls, hookCalls>>

\* fs.readFile settles; on success VAULT_ROLE is read and kubernetesLogin is called
InitReadFileDone ==
    /\ BagIn(InitReadFileTask, tasks)
    /\ \E ok \in BOOLEAN :
        LET role == GetVar(processEnv, "VAULT_ROLE", "string", JsUndefined) IN
        IF ~ok
        THEN InitFailed(InitReadFileTask, "ENOENT")
        ELSE IF ~role.ok
             THEN InitFailed(InitReadFileTask, role.err)
             ELSE /\ tasks' = (tasks (-) One(InitReadFileTask)) (+) One(InitLoginTask)
                  /\ calls' = Bump(calls, "login")
                  /\ ret' = NoRet
                  /\ lastLog' = NoLog
                  /\ UNCHANGED <<config, token, rawSecrets, metrics, sigints, history,
                                 initCalls, getSecretCalls, hookCalls>>

\* kubernetesLogin settles: the token is stored and its first renewal scheduled
InitLoginDone ==
    /\ BagIn(InitLoginTask, tasks)
    /\ \/ \E clientToken \in Tokens, leaseDuration \in IssueDurations :
            /\ token' = Str(clientToken)
            /\ tasks' = ScheduleTokenRenewal(tasks (-) One(InitLoginTask), leaseDuration)
            /\ okLogins' = okLogins + 1
            /\ ret' = Ret("init", "ok", JsUndefined)
            /\ lastLog' = NoLog
            /\ UNCHANGED <<config, rawSecrets, calls, metrics, sigints, cacheHits,
                           revoked, leaseReads, initCalls, getSecretCalls, hookCalls>>
       \/ \E message \in CallErrors : InitFailed(InitLoginTask, message)

----------------------------------------------------------------------------
(* getSecret *)

\* getSecret() up to its first await: getVar, the disabled pass-through, the cache
\* lookup, and on a miss the start of vault.read
GetSecretCall(envName, acc, nullable) ==
    LET accessor == Accessor(envName, acc)
        envValue == GetVar(processEnv, envName, "string",
                           IF nullable THEN JsNull ELSE JsUndefined)
    IN
    /\ getSecretCalls < MaxGetSecretCalls
    /\ getSecretCalls' = getSecretCalls + 1
    /\ IF ~envValue.ok
       THEN /\ ret' = Ret("getSecret", "throw", Str(envValue.err))
            /\ UNCHANGED <<tasks, calls, cacheHits>>
       ELSE IF ~isVaultEnabled
            THEN /\ ret' = Ret("getSecret", "ok", envValue.val)
                 /\ UNCHANGED <<tasks, calls, cacheHits>>
            ELSE IF IsCached(envValue.val)
                 THEN /\ ret' = Ret("getSecret", "ok",
                                    Get(CachedRawSecret(envValue.val), accessor))
                      /\ cacheHits' = cacheHits + 1
                      /\ UNCHANGED <<tasks, calls>>
                 ELSE /\ tasks' = tasks (+) One(ReadTask(envValue.val, accessor))
                      /\ calls' = Bump(calls, "read")
                      /\ ret' = NoRet
                      /\ UNCHANGED cacheHits
    /\ lastLog' = NoLog
    /\ UNCHANGED <<config, token, rawSecrets, metrics, sigints, okLogins, revoked,
                   leaseReads, initCalls, hookCalls>>

\* mutant: the error is swallowed and an undefined secret is returned
GetSecretFailedMut(task, message) ==
    /\ tasks' = tasks (-) One(task)
    /\ lastLog' = Log("Failed to get vault secret", 0)
    /\ ret' = Ret("getSecret", "ok", JsUndefined)
    /\ UNCHANGED <<rawSecrets, metrics, leaseReads>>

\* catch (err) of getSecret: failure metric, error log, throw err
GetSecretFailed(task, message) ==
    /\ tasks' = tasks (-) One(task)
    /\ metrics' = Bump(metrics, <<"failure", "get_secret">>)
    /\ lastLog' = Log("Failed to get vault secret", 0)
    /\ ret' = Ret("getSecret", "throw", Str(message))
    /\ UNCHANGED <<rawSecrets, leaseReads>>

\* mutant: a renewal is scheduled whether or not the response carries a lease
HasLeaseMut(leaseId) == TRUE

\* if (leaseId)
HasLease(leaseId) == leaseId # ""

\* vault.read settles
ReadDone(task) ==
    /\ task.k = "read"
    /\ BagIn(task, tasks)
    /\ \/ \E data \in Payloads, leaseId \in ReadLeaseIds, leaseDuration \in IssueDurations :
            /\ tasks' = IF HasLease(leaseId)
                        THEN ScheduleLeaseRenewal(tasks (-) One(task), leaseId, leaseDuration)
                        ELSE tasks (-) One(task)
            /\ leaseReads' = IF leaseId \in LeaseIds
                             THEN Bump(leaseReads, leaseId)
                             ELSE leaseReads
            /\ rawSecrets' = [rawSecrets EXCEPT ![task.path] = data]
            /\ metrics' = Bump(metrics, <<"success", "get_secret">>)
            /\ ret' = Ret("getSecret", "ok", Get(data, task.acc))
            /\ lastLog' = NoLog
       \/ \E message \in CallErrors : GetSecretFailed(task, message)
    /\ UNCHANGED <<config, token, calls, sigints, okLogins, cacheHits, revoked,
                   initCalls, getSecretCalls, hookCalls>>

----------------------------------------------------------------------------
(* renewToken / renewLease *)

RenewOp(cred) == IF cred = "token" THEN "renew_token" ELSE "renew_lease"
RenewCalls == calls["renew_token"] + calls["renew_lease"]

\* mutant: the timer that ran the renewal stays armed (an interval, not a timeout)
RenewStartMut(from, cred, retryDelay, f) ==
    /\ tasks' = tasks (+) One(RenewTask(cred, retryDelay, f))
    /\ calls' = Bump(calls, RenewOp(cred))
    /\ ret' = NoRet
    /\ lastLog' = NoLog
    /\ UNCHANGED <<config, token, rawSecrets, metrics, sigints, history, initCalls,
                   getSecretCalls, hookCalls>>

\* entry of renewToken(retryDelay) / renewLease(leaseId, retryDelay) up to the await
\* of the renew call, run by the task `from` (an expired timer or retry delay)
RenewStart(from, cred, retryDelay, f) ==
    /\ IF ~isVaultEnabled
       THEN /\ tasks' = tasks (-) One(from)
            /\ UNCHANGED calls
       ELSE /\ tasks' = (tasks (-) One(from)) (+) One(RenewTask(cred, retryDelay, f))
            /\ calls' = Bump(calls, RenewOp(cred))
    /\ ret' = NoRet
    /\ lastLog' = NoLog
    /\ UNCHANGED <<config, token, rawSecrets, metrics, sigints, history, initCalls,
                   getSecretCalls, hookCalls>>

\* mutant: the renewal run by a timer starts from the maximum delay
TimerFireMut(task) ==
    /\ task.k = "timer"
    /\ BagIn(task, tasks)
    /\ RenewCalls < MaxRenewCalls
    /\ RenewStart(task, task.cred, renewalMaxDelay, 0)

\* a renewal timer expires: renewToken() / renewLease(leaseId) with the default retryDelay
TimerFire(task) ==
    /\ task.k = "timer"
    /\ BagIn(task, tasks)
    /\ RenewCalls < MaxRenewCalls
    /\ RenewStart(task, task.cred, DurationMsSecond, 0)

\* mutant: the retries stop after the second consecutive failure
RetryFireMut(task) ==
    /\ task.k = "retry"
    /\ task.f < 2
    /\ BagIn(task, tasks)
    /\ RenewCalls < MaxRenewCalls
    /\ RenewStart(task, task.cred, task.d * 2, task.f)

\* await delay(retryDelay) is over: renewX(retryDelay * 2)
RetryFire(task) ==
    /\ task.k = "retry"
    /\ BagIn(task, tasks)
    /\ RenewCalls < MaxRenewCalls
    /\ RenewStart(task, task.cred, task.d * 2, task.f)

\* the revoked signature of a credential
IsRevoked(cred, message) ==
    IF cred = "token" THEN TokenIsRevoked(message) ELSE LeaseIsRevoked(message)

\* the delay named in the 'Retrying in ...ms' log: the token logs after the cap is
\* applied, the lease before
LoggedRetryDelay(cred, retryDelay) ==
    IF cred = "token" THEN CapRetryDelay(retryDelay) ELSE retryDelay

\* tokenRenewSelf / write('sys/leases/renew') settles
RenewDone(task) ==
    /\ task.k = "renew"
    /\ BagIn(task, tasks)
    /\ \/ \E leaseDuration \in RenewDurations :
            /\ tasks' = IF task.cred = "token"
                        THEN ScheduleTokenRenewal(tasks (-) One(task), leaseDuration)
                        ELSE ScheduleLeaseRenewal(tasks (-) One(task), task.cred, leaseDuration)
            /\ metrics' = Bump(metrics, <<"success", RenewOp(task.cred)>>)
            /\ lastLog' = NoLog
            /\ UNCHANGED <<sigints, revoked>>
       \/ \E message \in ErrorMessages :
            IF IsRevoked(task.cred, message)
            THEN /\ tasks' = tasks (-) One(task)
                 /\ lastLog' = Log("Vault credential is revoked. Exiting", 0)
                 /\ sigints' = sigints + 1
                 /\ revoked' = revoked \cup {task.cred}
                 /\ UNCHANGED metrics
            ELSE /\ metrics' = Bump(metrics, <<"failure", RenewOp(task.cred)>>)
                 /\ lastLog' = Log("Failed to renew. Retrying in",
                                   LoggedRetryDelay(task.cred, task.d))
                 /\ tasks' = (tasks (-) One(task))
                                (+) One(RetryTask(task.cred, CapRetryDelay(task.d), task.f + 1))
                 /\ UNCHANGED <<sigints, revoked>>
    /\ ret' = NoRet
    /\ UNCHANGED <<config, token, rawSecrets, calls, okLogins, cacheHits, leaseReads,
                   initCalls, getSecretCalls, hookCalls>>

----------------------------------------------------------------------------
(* onDestroy / onBeforeApplicationShutdown *)

\* mutant: the revocation cancels the pending timers and promises
RevokeTokenMut ==
    /\ hookCalls < MaxHookCalls
    /\ hookCalls' = hookCalls + 1
    /\ IF NoVaultToken
       THEN /\ ret' = Ret("revokeToken", "ok", JsUndefined)
            /\ UNCHANGED <<token, tasks, calls>>
       ELSE /\ token' = Str("")
            /\ calls' = Bump(calls, "revoke")
            /\ tasks' = One(RevokeTask)
            /\ ret' = NoRet
    /\ lastLog' = NoLog
    /\ UNCHANGED <<config, rawSecrets, metrics, sigints, history, initCalls,
                   getSecretCalls>>

\* revokeToken() up to the await of tokenRevokeSelf
RevokeToken ==
    /\ hookCalls < MaxHookCalls
    /\ hookCalls' = hookCalls + 1
    /\ IF NoVaultToken
       THEN /\ ret' = Ret("revokeToken", "ok", JsUndefined)
            /\ UNCHANGED <<token, tasks, calls>>
       ELSE /\ token' = Str("")
            /\ calls' = Bump(calls, "revoke")
            /\ tasks' = tasks (+) One(RevokeTask)
            /\ ret' = NoRet
    /\ lastLog' = NoLog
    /\ UNCHANGED <<config, rawSecrets, metrics, sigints, history, initCalls,
                   getSecretCalls>>

OnDestroy == RevokeToken

OnBeforeApplicationShutdown == RevokeToken

\* mutant: a rejected revoke call is issued again
RevokeDoneMut ==
    /\ BagIn(RevokeTask, tasks)
    /\ \/ /\ tasks' = tasks (-) One(RevokeTask)
          /\ ret' = Ret("revokeToken", "ok", JsUndefined)
          /\ UNCHANGED calls
       \/ /\ calls' = Bump(calls, "revoke")
          /\ ret' = NoRet
          /\ UNCHANGED tasks
    /\ lastLog' = NoLog
    /\ UNCHANGED <<config, token, rawSecrets, metrics, sigints, history,
                   initCalls, getSecretCalls, hookCalls>>

\* tokenRevokeSelf settles; a rejection propagates to the caller of the hook
RevokeDone ==
    /\ BagIn(RevokeTask, tasks)
    /\ tasks' = tasks (-) One(RevokeTask)
    /\ \/ ret' = Ret("revokeToken", "ok", JsUndefined)
       \/ \E message \in CallErrors : ret' = Ret("revokeToken", "throw", Str(message))
    /\ lastLog' = NoLog
    /\ UNCHANGED <<config, token, rawSecrets, calls, metrics, sigints, history,
                   initCalls, getSecretCalls, hookCalls>>

----------------------------------------------------------------------------
Next ==
    \/ InitCall
    \/ InitReadFileDone
    \/ InitLoginDone
    \/ \E in \in GetSecretInputs : GetSecretCall(in[1], in[2], in[3])
    \/ \E task \in BagToSet(tasks) : ReadDone(task)
    \/ \E task \in BagToSet(tasks) : TimerFire(task)
    \/ \E task \in BagToSet(tasks) : RenewDone(task)
    \/ \E task \in BagToSet(tasks) : RetryFire(task)
    \/ OnDestroy
    \/ OnBeforeApplicationShutdown
    \/ RevokeDone

Spec == Init /\ [][Next]_vars

\* the retry delay of a credential runs out: node fires an expired delay() as long as
\* the process runs
RetryFireOf(cred) ==
    \E task \in BagToSet(tasks) : task.cred = cred /\ RetryFire(task)

FairSpec == Spec /\ \A cred \in LeaseIds \cup {"token"} : WF_vars(RetryFireOf(cred))

----------------------------------------------------------------------------
(* getVar as an operation of its own: the typed variable reader applied to the
   variables of the process, for every requested type and default *)

GetVarNames == {"X", "Y"}
\* values of a variable: unset, empty, well-formed literals and malformed ones
GetVarValues ==
    {JsUndefined, Str(""), Str("true"), Str("false"), Str("0"), Str("3000"), Str("null"),
     Str("{}"), Str("\"x\""), Str("p1"), Str("{someProp: 2")}
GetVarTypes == {"string", "boolean", "number", "object"}
\* defaultValue: none, null, and falsy and truthy defaults of every type
GetVarDefaults ==
    {JsUndefined, JsNull, Str(""), Str("d"),
     [t |-> "boolean", v |-> "false"], [t |-> "boolean", v |-> "true"],
     [t |-> "number", v |-> "0"], [t |-> "number", v |-> "100"],
     [t |-> "object", v |-> "{}"]}

\* the service constructed in a process whose variables X and Y are arbitrary and
\* whose VAULT_* variables are unset
GetVarInit ==
    /\ processEnv \in [GetVarNames -> GetVarValues]
    /\ isVaultEnabled = FALSE
    /\ renewalLeaseLifetime = <<6, 10>>
    /\ renewalMaxDelay = DurationMsMinute
    /\ token = JsUndefined
    /\ rawSecrets = [p \in PathKeys |-> NoPayload]
    /\ tasks = EmptyBag
    /\ calls = [o \in StoreOps |-> 0]
    /\ metrics = [m \in Statuses \X Methods |-> 0]
    /\ sigints = 0
    /\ lastLog = NoLog
    /\ ret = NoRet
    /\ okLogins = 0
    /\ cacheHits = 0
    /\ revoked = {}
    /\ leaseReads = [l \in LeaseIds |-> 0]
    /\ initCalls = 0
    /\ getSecretCalls = 0
    /\ hookCalls = 0

\* what a call of getVar hands to its caller
GetVarRet(r) ==
    IF r.ok THEN Ret("getVar", "ok", r.val) ELSE Ret("getVar", "throw", Str(r.err))

GetVarCall(name, type, defaultValue) ==
    /\ ret' = GetVarRet(GetVar(processEnv, name, type, defaultValue))
    /\ lastLog' = NoLog
    /\ UNCHANGED <<config, token, rawSecrets, tasks, calls, metrics, sigints, history,
                   initCalls, getSecretCalls, hookCalls>>

GetVarNext ==
    \E name \in GetVarNames, type \in GetVarTypes, defaultValue \in GetVarDefaults :
        GetVarCall(name, type, defaultValue)

GetVarSpec == GetVarInit /\ [][GetVarNext]_vars

----------------------------------------------------------------------------
(* Vocabulary of the properties *)

RenewalKinds == {"timer", "renew", "retry"}
Credentials == LeaseIds \cup {"token"}

\* copies of task t that the step adds (negative: removes)
Added(t) == CopiesIn(t, tasks') - CopiesIn(t, tasks)
AddedTasks == {t \in BagToSet(tasks') : Added(t) > 0}
RemovedTasks == {t \in BagToSet(tasks) : Added(t) < 0}

RECURSIVE Pow2(_)
Pow2(n) == IF n <= 0 THEN 1 ELSE 2 * Pow2(n - 1)

Min(a, b) == IF a <= b THEN a ELSE b

TokenPresent == isVaultEnabled /\ ~Falsy(token)

----------------------------------------------------------------------------
(* C1: with a token present, the shutdown hooks issue exactly one revoke call however
   often and in whatever order they run: a hook that finds the token clears it and
   issues the call, a hook that finds it cleared issues nothing, so a stored token is
   revoked at most once. *)
C1_RevokeExactlyOnce ==
    [][ /\ calls'["revoke"] <= okLogins'
        /\ hookCalls' = hookCalls + 1 =>
              IF TokenPresent
              THEN /\ token' = Str("")
                   /\ calls'["revoke"] = calls["revoke"] + 1
              ELSE /\ token' = token
                   /\ calls' = calls
                   /\ tasks' = tasks ]_vars

C1_Witness ==
    /\ okLogins = 1
    /\ hookCalls = 2
    /\ calls["revoke"] = 1
    /\ token = Str("")

(* C2: with the store disabled no store call is ever issued and no timer or promise is
   ever pending, init returns at once, and getSecret(X) of a set variable X returns the
   raw value of X. *)
C2_DisabledPassThrough ==
    [][ ~isVaultEnabled =>
          /\ tasks' = EmptyBag
          /\ \A o \in StoreOps : calls'[o] = 0
          /\ initCalls' = initCalls + 1 => ret' = Ret("init", "ok", JsUndefined)
          /\ \A in \in GetSecretInputs :
                (GetSecretCall(in[1], in[2], in[3]) /\ processEnv[in[1]] # JsUndefined)
                    => ret' = Ret("getSecret", "ok", processEnv[in[1]]) ]_vars

\* the part of C2 that the code keeps: a disabled manager never contacts the store
C2_DisabledNeverContactsStore ==
    ~isVaultEnabled =>
        /\ tasks = EmptyBag
        /\ \A o \in StoreOps : calls[o] = 0
        /\ \A m \in Statuses \X Methods : metrics[m] = 0

(* C3: once the cache holds a payload for a path, a getSecret call that resolves to
   that path returns the projection of the cached payload, issues no store read and
   schedules no lease renewal. *)
C3_CachedPathServedFromCache ==
    [][ getSecretCalls' = getSecretCalls + 1 =>
          /\ \A t \in AddedTasks : t.k = "read" /\ rawSecrets[t.path] = NoPayload
          /\ \A in \in GetSecretInputs :
                LET envValue == GetVar(processEnv, in[1], "string",
                                       IF in[3] THEN JsNull ELSE JsUndefined)
                IN  ( /\ GetSecretCall(in[1], in[2], in[3])
                      /\ isVaultEnabled
                      /\ envValue.ok
                      /\ rawSecrets[envValue.val] # NoPayload )
                    => /\ ret' = Ret("getSecret", "ok",
                                     rawSecrets[envValue.val][Accessor(in[1], in[2])])
                       /\ calls' = calls
                       /\ tasks' = tasks ]_vars

C3_Witness ==
    /\ cacheHits = 1
    /\ calls["read"] = 1
    /\ rawSecrets[Str("p1")] # NoPayload
    /\ ret = Ret("getSecret", "ok", Str("s1"))

(* C4: the delay waited before the k-th consecutive retry of a renewal, of the token or
   of a lease, is min(1000 ms * 2^(k-1), VAULT_RENEWAL_MAX_DELAY), and never more than
   the maximum. *)
C4_RetryDelayBackoff ==
    \A t \in BagToSet(tasks) :
        t.k = "retry" =>
            /\ t.d = Min(DurationMsSecond * Pow2(t.f - 1), renewalMaxDelay)
            /\ t.d <= renewalMaxDelay

C4_Witness ==
    /\ \E t \in BagToSet(tasks) :
          /\ t.k = "retry" /\ t.cred = "token" /\ t.f = 2
          /\ t.d = renewalMaxDelay /\ t.d < DurationMsSecond * 2
    /\ \E t \in BagToSet(tasks) :
          t.k = "retry" /\ t.cred \in LeaseIds /\ t.d = DurationMsSecond

(* C5: a renewal that fails with the revoked signature of its credential ends that
   credential: SIGINT is emitted once, nothing is raised, and from then on the
   credential has no renewal timer, no retry timer and no renew call. *)
C5_RevokedIsTerminal ==
    [][ /\ \A c \in revoked' : TasksOf(tasks', RenewalKinds, c) = 0
        /\ revoked' # revoked =>
              /\ sigints' = sigints + 1
              /\ ret' = NoRet
              /\ AddedTasks = {} ]_vars

(* C6: after one successful init the token has at most one live renewal activity (a
   pending renewal or retry timer, or a renew call in flight), and a token timer is
   armed only by the step that finishes the login or the preceding renew call. *)
C6_OneTokenRenewalActivity ==
    [][ /\ okLogins' = 1 => TasksOf(tasks', RenewalKinds, "token") <= 1
        /\ TasksOf(tasks', {"timer"}, "token") > TasksOf(tasks, {"timer"}, "token") =>
              \/ okLogins' = okLogins + 1
              \/ TasksOf(tasks', {"renew"}, "token") < TasksOf(tasks, {"renew"}, "token")
      ]_vars

C6_Witness ==
    /\ okLogins = 1
    /\ metrics[<<"success", "renew_token">>] >= 1
    /\ metrics[<<"failure", "renew_token">>] >= 1
    /\ TasksOf(tasks, RenewalKinds, "token") = 1

(* C7: every lease identifier has at most one pending renewal timer and at most one
   outstanding renewal attempt, also when two concurrent cache misses read the same
   lease identifier. *)
C7_OneTimerPerLease ==
    \A l \in LeaseIds :
        /\ TasksOf(tasks, {"timer"}, l) <= 1
        /\ TasksOf(tasks, {"renew", "retry"}, l) <= 1

(* C8: every renewal timer is armed with lease duration * 1000 ms * renewal fraction,
   the lease duration being that of the response that armed it (login or read for the
   first timer, renew for a re-armed one); a renew call is issued only by the expiry of
   a timer of its credential. *)
C8_RenewalDelay ==
    [][ /\ \A t \in AddedTasks :
              t.k = "timer" =>
                /\ t.d * renewalLeaseLifetime[2] = t.f * DurationMsSecond * renewalLeaseLifetime[1]
                /\ IF \E r \in RemovedTasks : r.k = "renew" /\ r.cred = t.cred
                   THEN t.f \in RenewDurations
                   ELSE t.f \in IssueDurations
        /\ \A t \in AddedTasks :
              t.k = "renew" =>
                \E r \in RemovedTasks : r.k \in {"timer", "retry"} /\ r.cred = t.cred
        /\ \A o \in {"renew_token", "renew_lease"} :
              calls'[o] > calls[o] => \E t \in AddedTasks : t.k = "renew" ]_vars

C8_Witness ==
    /\ \E t \in BagToSet(tasks) :
          t.k = "timer" /\ t.cred = "token" /\ t.f = 180 /\ t.d = 108000
    /\ \E t \in BagToSet(tasks) :
          t.k = "timer" /\ t.cred \in LeaseIds /\ t.f = 120 /\ t.d = 72000

(* C9: an init whose file read, VAULT_ROLE lookup or login fails logs the error and
   raises it to the caller; it repeats no step, stores no token and sets no timer. *)
C9_InitFailureIsRaised ==
    [][ TasksOf(tasks', {"init.readFile", "init.login"}, "")
            < TasksOf(tasks, {"init.readFile", "init.login"}, "") =>
          \/ /\ okLogins' = okLogins + 1
             /\ ret' = Ret("init", "ok", JsUndefined)
          \/ /\ ret'.op = "init" /\ ret'.st = "throw"
             /\ ret'.val \in {Str("ENOENT"), Str("Env variable is not defined")}
                                \cup {Str(m) : m \in CallErrors}
             /\ lastLog' = Log("Failed to init vault", 0)
             /\ token' = token
             /\ calls' = calls
             /\ AddedTasks = {}
             /\ okLogins' = okLogins ]_vars

C9_Witness ==
    /\ ret = Ret("init", "throw", Str("timeout"))
    /\ calls["login"] = 1
    /\ okLogins = 0
    /\ token = JsUndefined
    /\ tasks = EmptyBag

(* C10: a successful init stores the session token of the login response and arms one
   token renewal timer, the only one when it is the first successful init; before an
   init has succeeded there is no token and no token renewal activity. *)
C10_InitStoresTokenAndSchedules ==
    [][ /\ okLogins' = 0 =>
              /\ Falsy(token')
              /\ TasksOf(tasks', RenewalKinds, "token") = 0
        /\ okLogins' = okLogins + 1 =>
              /\ token' \in {Str(t) : t \in Tokens}
              /\ TasksOf(tasks', {"timer"}, "token") = TasksOf(tasks, {"timer"}, "token") + 1
              /\ TasksOf(tasks', {"renew", "retry"}, "token")
                    = TasksOf(tasks, {"renew", "retry"}, "token")
              /\ okLogins = 0 => TasksOf(tasks', RenewalKinds, "token") = 1 ]_vars

C10_Witness ==
    /\ okLogins = 1
    /\ token = Str("t1")
    /\ ret = Ret("init", "ok", JsUndefined)
    /\ TasksOf(tasks, {"timer"}, "token") = 1
    /\ TasksOf(tasks, {"renew", "retry"}, "token") = 0

(* C11: when the store read of a cache miss fails, getSecret counts exactly one
   get_secret failure (and no success), throws the error of the read to its caller,
   leaves the cache as it was and sets no timer; a read that settles otherwise is a
   success that caches the payload. *)
C11_ReadFailureIsRaised ==
    [][ \A task \in RemovedTasks :
          task.k = "read" =>
            \/ /\ metrics' = Bump(metrics, <<"success", "get_secret">>)
               /\ ret'.op = "getSecret" /\ ret'.st = "ok"
               /\ rawSecrets'[task.path] \in Payloads
            \/ /\ metrics' = Bump(metrics, <<"failure", "get_secret">>)
               /\ ret'.op = "getSecret" /\ ret'.st = "throw"
               /\ ret'.val \in {Str(m) : m \in CallErrors}
               /\ lastLog' = Log("Failed to get vault secret", 0)
               /\ rawSecrets' = rawSecrets
               /\ AddedTasks = {}
               /\ calls' = calls ]_vars

C11_Witness ==
    /\ ret = Ret("getSecret", "throw", Str("timeout"))
    /\ metrics[<<"failure", "get_secret">>] = 1
    /\ metrics[<<"success", "get_secret">>] = 0
    /\ calls["read"] = 1
    /\ rawSecrets = [p \in PathKeys |-> NoPayload]
    /\ \A l \in LeaseIds : TasksOf(tasks, RenewalKinds, l) = 0

(* C12: getSecret of an unset variable throws the missing-variable error unless nullable
   was requested; with nullable it returns null and does nothing else, with the store
   enabled as well as disabled. *)
C12_UnsetVariable ==
    [][ \A in \in GetSecretInputs :
          (GetSecretCall(in[1], in[2], in[3]) /\ processEnv[in[1]] = JsUndefined) =>
              /\ IF in[3]
                 THEN ret' = Ret("getSecret", "ok", JsNull)
                 ELSE ret' = Ret("getSecret", "throw", Str("Env variable is not defined"))
              /\ tasks' = tasks
              /\ calls' = calls ]_vars

\* the part of C12 that the code keeps: the disabled manager, and the enabled one
\* without nullable
C12_UnsetVariableDisabledOrRequired ==
    [][ \A in \in GetSecretInputs :
          ( /\ GetSecretCall(in[1], in[2], in[3])
            /\ processEnv[in[1]] = JsUndefined
            /\ ~(isVaultEnabled /\ in[3]) ) =>
              /\ IF in[3]
                 THEN ret' = Ret("getSecret", "ok", JsNull)
                 ELSE ret' = Ret("getSecret", "throw", Str("Env variable is not defined"))
              /\ tasks' = tasks
              /\ calls' = calls ]_vars

(* C13: every settled store operation is counted exactly once: the success and failure
   observations of get_secret, renew_token and renew_lease add up to the store reads,
   token renew calls and lease renew calls that have settled, the renew calls that ended
   in the terminal failure included. *)
C13_OneObservationPerStoreOperation ==
    /\ metrics[<<"success", "get_secret">>] + metrics[<<"failure", "get_secret">>]
          = calls["read"] - TasksOf(tasks, {"read"}, "")
    /\ metrics[<<"success", "renew_token">>] + metrics[<<"failure", "renew_token">>]
          = calls["renew_token"] - TasksOf(tasks, {"renew"}, "token")
    /\ LET inFlight == {t \in BagToSet(tasks) : t.k = "renew" /\ t.cred \in LeaseIds}
       IN  metrics[<<"success", "renew_lease">>] + metrics[<<"failure", "renew_lease">>]
             = calls["renew_lease"]
                 - (IF inFlight = {} THEN 0
                    ELSE BagCardinality([t \in inFlight |-> CopiesIn(t, tasks)]))

\* the part of C13 that the code keeps: reads are counted once each, and so are the
\* renew calls that did not meet the revoked signature
C13_OneObservationUnlessTerminal ==
    /\ metrics[<<"success", "get_secret">>] + metrics[<<"failure", "get_secret">>]
          = calls["read"] - TasksOf(tasks, {"read"}, "")
    /\ revoked = {} =>
          /\ metrics[<<"success", "renew_token">>] + metrics[<<"failure", "renew_token">>]
                = calls["renew_token"] - TasksOf(tasks, {"renew"}, "token")
          /\ \A l \in LeaseIds :
                metrics[<<"success", "renew_lease">>] + metrics[<<"failure", "renew_lease">>]
                  = calls["renew_lease"] - TasksOf(tasks, {"renew"}, l)

\* the errors of getVar by their message
MissingVariableError == "Env variable is not defined"
IsParseError(err) ==
    err \in {"Error while parsing variable; SyntaxError",
             "Error while parsing variable; TypeError: Unexpected typeof"}
IsTypeMismatchError(err) ==
    err \in {"TypeError: Unexpected typeof",
             "Error while parsing variable; TypeError: Unexpected typeof"}

\* what getVar makes of a set variable of value `value` when it returns
ParsedAs(value, type, val) ==
    IF type = "string"
    THEN val = value
    ELSE value.v \in DOMAIN JsonLiterals /\ val = JsonLiterals[value.v]

(* C14: getVar returns the default exactly when the variable is unset: an unset variable
   yields the default when one is given, be it null, false, 0 or empty, and the
   missing-variable error otherwise; a set variable, whatever its value, yields neither
   the missing-variable error nor a value that is not read from the variable. *)
C14_DefaultExactlyWhenUnset ==
    [][ \A name \in GetVarNames, type \in GetVarTypes, defaultValue \in GetVarDefaults :
          GetVarCall(name, type, defaultValue) =>
            IF processEnv[name] = JsUndefined
            THEN ret' = IF defaultValue # JsUndefined
                        THEN Ret("getVar", "ok", defaultValue)
                        ELSE Ret("getVar", "throw", Str(MissingVariableError))
            ELSE /\ ret' # Ret("getVar", "throw", Str(MissingVariableError))
                 /\ ret'.st = "ok" => ParsedAs(processEnv[name], type, ret'.val) ]_vars

\* the part of C14 that the code keeps: every variable that is not the empty string
C14_DefaultExactlyWhenUnsetOrEmpty ==
    [][ \A name \in GetVarNames, type \in GetVarTypes, defaultValue \in GetVarDefaults :
          (GetVarCall(name, type, defaultValue) /\ processEnv[name] # Str("")) =>
            IF processEnv[name] = JsUndefined
            THEN ret' = IF defaultValue # JsUndefined
                        THEN Ret("getVar", "ok", defaultValue)
                        ELSE Ret("getVar", "throw", Str(MissingVariableError))
            ELSE /\ ret' # Ret("getVar", "throw", Str(MissingVariableError))
                 /\ ret'.st = "ok" => ParsedAs(processEnv[name], type, ret'.val) ]_vars

(* C15: for a set, non-empty variable requested as boolean, number or object, getVar
   throws a parse error when the literal is malformed, and a type-mismatch error that is
   not a parse error when the literal is well-formed but of another type. *)
C15_ParseAndTypeErrors ==
    [][ \A name \in GetVarNames, type \in GetVarTypes \ {"string"},
           defaultValue \in GetVarDefaults :
          (GetVarCall(name, type, defaultValue) /\ ~Falsy(processEnv[name])) =>
            LET value == processEnv[name] IN
            IF value.v \notin DOMAIN JsonLiterals
            THEN ret'.st = "throw" /\ IsParseError(ret'.val.v)
            ELSE TypeOf(JsonLiterals[value.v]) # type =>
                   /\ ret'.st = "throw"
                   /\ IsTypeMismatchError(ret'.val.v)
                   /\ ~IsParseError(ret'.val.v) ]_vars

\* the part of C15 that the code keeps: both cases throw, and the message of the second
\* carries the type mismatch
C15_ParseAndTypeErrorsWrapped ==
    [][ \A name \in GetVarNames, type \in GetVarTypes \ {"string"},
           defaultValue \in GetVarDefaults :
          (GetVarCall(name, type, defaultValue) /\ ~Falsy(processEnv[name])) =>
            LET value == processEnv[name] IN
            IF value.v \notin DOMAIN JsonLiterals
            THEN ret'.st = "throw" /\ IsParseError(ret'.val.v)
                    /\ ~IsTypeMismatchError(ret'.val.v)
            ELSE IF TypeOf(JsonLiterals[value.v]) # type
                 THEN ret'.st = "throw" /\ IsTypeMismatchError(ret'.val.v)
                 ELSE ret' = Ret("getVar", "ok", JsonLiterals[value.v]) ]_vars

(* C16: revokeToken clears the token in the step that issues the revoke call, and a
   token renewal timer or retry delay that expires while the token is cleared does
   nothing: no renew call is issued and no timer or promise is added. *)
C16_ClearedTokenStopsRenewal ==
    [][ /\ calls'["revoke"] > calls["revoke"] => token' = Str("")
        /\ \A t \in RemovedTasks :
              ( /\ t.k \in {"timer", "retry"}
                /\ t.cred = "token"
                /\ token = Str("") ) =>
                  /\ calls' = calls
                  /\ AddedTasks = {} ]_vars

\* the part of C16 that the code keeps: the token is cleared before the revoke call
C16_TokenClearedBeforeRevoke ==
    [][ calls'["revoke"] > calls["revoke"] =>
          /\ TokenPresent
          /\ token' = Str("")
          /\ AddedTasks = {RevokeTask} ]_vars

(* C17: a token renew call that fails with 'permission denied' clears the token, so
   that the manager holds no token afterwards and a later shutdown hook issues no
   revoke call. *)
C17_PermissionDeniedClearsToken ==
    [][ /\ "token" \in revoked' => Falsy(token')
        /\ ("token" \in revoked /\ hookCalls' = hookCalls + 1) =>
              calls'["revoke"] = calls["revoke"] ]_vars

(* C18: once the cache holds a payload for a path, it holds the same payload for that
   path in every later state, whatever getSecret calls and renewals interleave. *)
C18_CacheEntryNeverChanges ==
    [][ \A p \in PathKeys :
          rawSecrets[p] # NoPayload => rawSecrets'[p] = rawSecrets[p] ]_vars

\* the part of C18 that the code keeps: an entry is never evicted, and it is written
\* only by a read that was started while the path had no entry
C18_CacheEntryNeverEvicted ==
    [][ \A p \in PathKeys :
          /\ rawSecrets[p] # NoPayload => rawSecrets'[p] # NoPayload
          /\ rawSecrets'[p] # rawSecrets[p] =>
                \E t \in RemovedTasks : t.k = "read" /\ t.path = p ]_vars

(* C19: a successful read caches the payload and sets at most one timer, a lease
   renewal timer of a non-empty lease identifier; a response without lease identifier
   sets none.  Renewal timers, renew calls and retries exist only for the token and for
   non-empty lease identifiers, and for a lease only after a successful read. *)
C19_StaticSecretHasNoRenewal ==
    [][ /\ metrics'[<<"success", "get_secret">>] > metrics[<<"success", "get_secret">>] =>
              /\ \E r \in RemovedTasks : r.k = "read" /\ rawSecrets'[r.path] \in Payloads
              /\ \A t \in AddedTasks :
                    t.k = "timer" /\ t.cred \in LeaseIds /\ t.cred # "" /\ Added(t) = 1
              /\ Cardinality(AddedTasks) <= 1
        /\ \A t \in BagToSet(tasks') :
              t.k \in RenewalKinds =>
                /\ t.cred \in Credentials /\ t.cred # ""
                /\ t.cred \in LeaseIds => metrics'[<<"success", "get_secret">>] >= 1 ]_vars

\* a static secret has been read and cached, and no lease renewal exists
C19_Witness ==
    /\ metrics[<<"success", "get_secret">>] = 1
    /\ calls["read"] = 1
    /\ ret = Ret("getSecret", "ok", Str("s1"))
    /\ rawSecrets[Str("p1")] \in Payloads
    /\ \A t \in BagToSet(tasks) : t.k \notin RenewalKinds

(* C20: retries of recoverable renewal failures are unbounded.  Whatever the number of
   consecutive failures, a recoverable failure of a renew call starts the retry delay of
   its credential; while renew calls remain in the budget of the exploration, a pending
   retry delay leads to another renew call of that credential; and a renew call that
   succeeds arms the renewal timer of the credential again. *)
C20_RetriesAreUnbounded ==
    /\ [][ \A r \in RemovedTasks :
              r.k = "renew" =>
                /\ metrics'[<<"failure", RenewOp(r.cred)>>]
                        > metrics[<<"failure", RenewOp(r.cred)>>] =>
                      \E t \in AddedTasks :
                          t.k = "retry" /\ t.cred = r.cred /\ t.f = r.f + 1
                /\ metrics'[<<"success", RenewOp(r.cred)>>]
                        > metrics[<<"success", RenewOp(r.cred)>>] =>
                      /\ \E t \in AddedTasks : t.k = "timer" /\ t.cred = r.cred
                      /\ TasksOf(tasks', {"retry"}, r.cred) = TasksOf(tasks, {"retry"}, r.cred)
          ]_vars
    /\ \A cred \in Credentials :
          (TasksOf(tasks, {"retry"}, cred) > 0 /\ RenewCalls < MaxRenewCalls)
              ~> (TasksOf(tasks, {"renew"}, cred) > 0 \/ RenewCalls >= MaxRenewCalls)

\* the token is renewed after two consecutive recoverable failures
C20_Witness ==
    /\ metrics[<<"failure", "renew_token">>] = 2
    /\ metrics[<<"success", "renew_token">>] = 1
    /\ TasksOf(tasks, {"timer"}, "token") = 1
    /\ TasksOf(tasks, {"retry", "renew"}, "token") = 0

(* C21: getSecret has no single-flight guard.  A call that misses the cache issues
   its own store read, whether or not a read of the same path is pending, and every
   successful read that returns a lease identifier sets one more renewal timer for it,
   whether or not the lease has one. *)
C21_NoSingleFlight ==
    [][ /\ \A in \in GetSecretInputs :
              LET envValue == GetVar(processEnv, in[1], "string",
                                     IF in[3] THEN JsNull ELSE JsUndefined)
              IN  ( /\ GetSecretCall(in[1], in[2], in[3])
                    /\ isVaultEnabled
                    /\ envValue.ok
                    /\ rawSecrets[envValue.val] = NoPayload )
                  => /\ calls'["read"] = calls["read"] + 1
                     /\ TasksOf(tasks', {"read"}, "") = TasksOf(tasks, {"read"}, "") + 1
        /\ \A l \in LeaseIds :
              leaseReads'[l] # leaseReads[l] =>
                  /\ leaseReads'[l] = leaseReads[l] + 1
                  /\ TasksOf(tasks', {"timer"}, l) = TasksOf(tasks, {"timer"}, l) + 1 ]_vars

\* two reads of the same path were issued before either settled, and each has set a
\* renewal timer for the same lease
C21_Witness ==
    /\ calls["read"] = 2
    /\ cacheHits = 0
    /\ rawSecrets[Str("p1")] \in Payloads
    /\ rawSecrets[JsNull] = NoPayload
    /\ leaseReads["l1"] = 2
    /\ TasksOf(tasks, {"timer"}, "l1") = 2

(* C22: revokeToken neither waits for nor cancels renewal work.  The step of a
   shutdown hook and the step that settles the revoke call leave every renewal timer,
   retry delay, renew call and read as they are, and the cache, the counters and the
   history of store calls other than revoke unchanged; of the fields of the manager
   only the token changes. *)
C22_RevokeLeavesRenewalsAlone ==
    [][ (hookCalls' = hookCalls + 1 \/ Added(RevokeTask) < 0) =>
          /\ \A t \in BagToSet(tasks) \cup BagToSet(tasks') :
                t # RevokeTask => Added(t) = 0
          /\ rawSecrets' = rawSecrets
          /\ metrics' = metrics
          /\ sigints' = sigints
          /\ \A o \in StoreOps \ {"revoke"} : calls'[o] = calls[o]
          /\ token' \in {token, Str("")}
          /\ Added(RevokeTask) < 0 => token' = token ]_vars

\* the token has been revoked while its renewal timer, a lease renewal timer and the
\* cache are all in place
C22_Witness ==
    /\ calls["revoke"] = 1
    /\ token = Str("")
    /\ ~BagIn(RevokeTask, tasks)
    /\ TasksOf(tasks, {"timer"}, "token") = 1
    /\ TasksOf(tasks, {"timer"}, "l1") = 1
    /\ rawSecrets[Str("p1")] \in Payloads

(* C23: every recoverable failure of a renew call, of the token or of a lease, counts
   one failure and logs the retry delay that is then waited, also when the doubled
   delay exceeds the maximum and is capped. *)
C23_LoggedDelayIsWaitedDelay ==
    [][ \A t \in AddedTasks :
          t.k = "retry" =>
            /\ metrics' = Bump(metrics, <<"failure", RenewOp(t.cred)>>)
            /\ lastLog' = Log("Failed to renew. Retrying in", t.d) ]_vars

\* the part of C23 that the code keeps: one failure is counted, and the logged delay is
\* the waited one for the token, and for a lease as long as the cap is not reached
C23_LoggedDelayUnlessLeaseCapped ==
    [][ \A t \in AddedTasks :
          t.k = "retry" =>
            /\ metrics' = Bump(metrics, <<"failure", RenewOp(t.cred)>>)
            /\ lastLog'.msg = "Failed to renew. Retrying in"
            /\ (t.cred = "token" \/ t.d < renewalMaxDelay) => lastLog'.d = t.d
            /\ lastLog'.d >= t.d ]_vars

(* C24: the backoff is reset by success.  The renew call run by a renewal timer starts
   from the base delay of one second whatever delay an earlier streak of failures
   reached, so that its first failure waits min(1000 ms, maximum delay); only a retry
   carries a doubled delay. *)
C24_BackoffResetBySuccess ==
    [][ /\ \A t \in AddedTasks :
              t.k = "renew" =>
                \/ \E r \in RemovedTasks :
                      /\ r.k = "timer" /\ r.cred = t.cred
                      /\ t.d = DurationMsSecond /\ t.f = 0
                \/ \E r \in RemovedTasks :
                      /\ r.k = "retry" /\ r.cred = t.cred
                      /\ t.d = 2 * r.d /\ t.f = r.f
        /\ \A t \in AddedTasks :
              (t.k = "retry" /\ t.f = 1) => t.d = Min(DurationMsSecond, renewalMaxDelay)
        /\ \A t \in AddedTasks :
              t.k = "timer" =>
                \A r \in RemovedTasks : r.k = "renew" => r.cred = t.cred ]_vars

\* the token renewal failed, succeeded on the retry (called with 2000 ms), and the first
\* failure of the next scheduled renewal waits one second again
C24_Witness ==
    /\ metrics[<<"failure", "renew_token">>] = 2
    /\ metrics[<<"success", "renew_token">>] = 1
    /\ lastLog = Log("Failed to renew. Retrying in", DurationMsSecond)
    /\ \E t \in BagToSet(tasks) :
          t.k = "retry" /\ t.cred = "token" /\ t.f = 1 /\ t.d = DurationMsSecond

(* C25: a failed revoke call is not retried.  The settling of the revoke call, failed or
   not, hands its outcome to the caller of the hook, leaves the token cleared and
   issues no store call; a hook that finds the token cleared issues none either, so a
   stored token is revoked at most once. *)
C25_FailedRevokeIsNotRetried ==
    [][ /\ Added(RevokeTask) < 0 =>
              /\ ret' \in {Ret("revokeToken", "ok", JsUndefined)}
                          \cup {Ret("revokeToken", "throw", Str(m)) : m \in CallErrors}
              /\ token' = token
              /\ calls' = calls
              /\ AddedTasks = {}
        /\ (hookCalls' = hookCalls + 1 /\ ~TokenPresent) =>
              calls' = calls /\ tasks' = tasks
        /\ calls'["revoke"] <= okLogins'
        /\ CopiesIn(RevokeTask, tasks') <= calls'["revoke"] ]_vars

\* the revoke call has failed to the caller of the first hook after the second hook
\* found the token cleared: two hooks, one revoke call
C25_Witness ==
    /\ ret = Ret("revokeToken", "throw", Str("timeout"))
    /\ hookCalls = 2
    /\ calls["revoke"] = 1
    /\ token = Str("")
    /\ ~BagIn(RevokeTask, tasks)

(* C26: the cache entry and the lease renewal are set in one step.  In every state a
   lease identifier that a successful read has returned has a renewal chain (a timer, a
   renew call or a retry delay) unless its renewal met the revoked signature, and the
   step in which a read returns a lease identifier both caches the payload and sets the
   timer. *)
C26_CachedLeaseIsScheduled ==
    [][ \A l \in LeaseIds :
          /\ leaseReads'[l] > 0 =>
                TasksOf(tasks', RenewalKinds, l) > 0 \/ l \in revoked'
          /\ leaseReads'[l] > leaseReads[l] =>
                /\ \E r \in RemovedTasks : r.k = "read" /\ rawSecrets'[r.path] \in Payloads
                /\ \E t \in AddedTasks : t.k = "timer" /\ t.cred = l
                /\ TasksOf(tasks', {"read"}, "") = TasksOf(tasks, {"read"}, "") - 1 ]_vars

\* the read of path p1 has just returned a lease: the payload is cached and the timer set
C26_Witness ==
    /\ leaseReads["l1"] = 1
    /\ calls["read"] = 1
    /\ ret = Ret("getSecret", "ok", Str("s1"))
    /\ rawSecrets[Str("p1")] \in Payloads
    /\ TasksOf(tasks, {"timer"}, "l1") = 1
    /\ TasksOf(tasks, {"renew", "retry"}, "l1") = 0

====
